---- MODULE Spec2Model ----
(***************************************************************************)
(* Model of the EcoVista wallpaper relay (src/server.js): the rate limiter *)
(* mounted on /api/, the health probe GET /, and the handler of            *)
(* POST /api/v1/generate-wallpaper with its prompt validation, prompt      *)
(* augmentation, single upstream call, image URL extraction and error      *)
(* mapping.  Strings are sequences of one-character strings.               *)
(***************************************************************************)
EXTENDS Integers, Sequences, FiniteSets, TLC

VARIABLES req, hits, passed, health, faults

vars == <<req, hits, passed, health, faults>>

\* ---------------------------------------------------------------- bounds
NumSlots == 2     \* requests that may be in flight at the same time
MaxPad == 1       \* leading / trailing whitespace characters of a prompt
MaxOver == 1      \* requests modelled beyond the limiter's maximum

\* ------------------------------------------------------ program constants
RateMax == 10
MinPromptLen == 3
MaxPromptLen == 500

\* --------------------------------------------------------------- strings
WhiteSpace == {" ", "\t", "\n"}

Rep(c, n) == [i \in 1..n |-> c]

\* index of the first character that is not white space (Len(s) + 1 if none)
FirstNonWs(s) ==
    CHOOSE i \in 1..(Len(s) + 1) :
        /\ i = Len(s) + 1 \/ s[i] \notin WhiteSpace
        /\ \A j \in 1..(i - 1) : s[j] \in WhiteSpace

\* index of the last character that is not white space (0 if none)
LastNonWs(s) ==
    CHOOSE i \in 0..Len(s) :
        /\ i = 0 \/ s[i] \notin WhiteSpace
        /\ \A j \in (i + 1)..Len(s) : s[j] \in WhiteSpace

\* String.prototype.trim: drops the leading and the trailing white space
Trim(s) == SubSeq(s, FirstNonWs(s), LastNonWs(s))

\* the constant text appended to every prompt
Suffix == <<
    ",", " ", "b", "e", "a", "u", "t", "i", "f", "u", "l", " ", "n", "a",
    "t", "u", "r", "e", " ", "w", "a", "l", "l", "p", "a", "p", "e", "r",
    ",", " ", "h", "i", "g", "h", " ", "q", "u", "a", "l", "i", "t", "y",
    ",", " ", "m", "o", "b", "i", "l", "e", " ", "p", "h", "o", "n", "e",
    " ", "w", "a", "l", "l", "p", "a", "p", "e", "r", ",", " ", "4", "K",
    ",", " ", "d", "e", "t", "a", "i", "l", "e", "d", ",", " ", "s", "t",
    "u", "n", "n", "i", "n", "g", ",", " ", "p", "e", "a", "c", "e", "f",
    "u", "l", " ", "n", "a", "t", "u", "r", "a", "l", " ", "s", "c", "e",
    "n", "e", "r", "y">>

\* variant: the prompt is trimmed before the suffix is appended
EnhancedPrompt_Trimmed(p) == Trim(p) \o Suffix

\* the template literal `${prompt}, beautiful nature wallpaper, ...`
EnhancedPrompt(p) == p \o Suffix

\* ------------------------------------------------------------- JS values
\* a JSON value of the request body, tagged with its JavaScript type
JsUndefined == [t |-> "undefined", s |-> <<>>, n |-> 0]
JsNull == [t |-> "null", s |-> <<>>, n |-> 0]
JsString(s) == [t |-> "string", s |-> s, n |-> 0]
JsNumber(n) == [t |-> "number", s |-> <<>>, n |-> n]
JsBoolean(b) == [t |-> "boolean", s |-> <<>>, n |-> IF b THEN 1 ELSE 0]
JsArray(s) == [t |-> "array", s |-> s, n |-> 0]

\* ToBoolean of a JSON value
Truthy(x) ==
    CASE x.t = "undefined" -> FALSE
      [] x.t = "null" -> FALSE
      [] x.t = "string" -> Len(x.s) > 0
      [] x.t = "number" -> x.n # 0
      [] x.t = "boolean" -> x.n = 1
      [] OTHER -> TRUE

\* ------------------------------------------------------------- responses
NoUrl == "<undefined>"
NullUrl == "<null>"

NoResponse ==
    [status |-> 0, code |-> "", fields |-> {}, image_url |-> NoUrl,
     prompt_used |-> <<>>]

ErrorBody(status, code) ==
    [status |-> status, code |-> code, fields |-> {"error", "code"},
     image_url |-> NoUrl, prompt_used |-> <<>>]

\* ------------------------------------------------------------ validation
\* variant: the minimum is tested on the raw length
Validate_NoTrim(prompt) ==
    IF ~Truthy(prompt) THEN "INVALID_PROMPT"
    ELSE IF prompt.t # "string" THEN "TypeError"
    ELSE IF Len(prompt.s) < MinPromptLen THEN "INVALID_PROMPT"
    ELSE IF Len(prompt.s) > MaxPromptLen THEN "PROMPT_TOO_LONG"
    ELSE "ok"

\* variant: the maximum is tested on the trimmed length
Validate_TrimmedMax(prompt) ==
    IF ~Truthy(prompt) THEN "INVALID_PROMPT"
    ELSE IF prompt.t # "string" THEN "TypeError"
    ELSE IF Len(Trim(prompt.s)) < MinPromptLen THEN "INVALID_PROMPT"
    ELSE IF Len(Trim(prompt.s)) > MaxPromptLen THEN "PROMPT_TOO_LONG"
    ELSE "ok"

\* the two guards in front of the upstream call; a truthy prompt that is
\* not a string has no trim method and the call throws a TypeError
Validate(prompt) ==
    IF ~Truthy(prompt) THEN "INVALID_PROMPT"
    ELSE IF prompt.t # "string" THEN "TypeError"
    ELSE IF Len(Trim(prompt.s)) < MinPromptLen THEN "INVALID_PROMPT"
    ELSE IF Len(prompt.s) > MaxPromptLen THEN "PROMPT_TOO_LONG"
    ELSE "ok"

\* ------------------------------------------------------- upstream payloads
\* response.data of a 2xx upstream answer: `images` is a list of entries
\* (an object with an optional url, or null), `output` a list of strings
ImageEntry(url) == [isNull |-> FALSE, url |-> url]
NullEntry == [isNull |-> TRUE, url |-> NullUrl]
Field(list) == [present |-> TRUE, list |-> list]
Missing == [present |-> FALSE, list |-> <<>>]
Payload(images, output) == [isNull |-> FALSE, images |-> images, output |-> output]
NullPayload == [isNull |-> TRUE, images |-> Missing, output |-> Missing]

\* ToBoolean of the extracted imageURL
FalsyUrl(u) == u \in {NoUrl, NullUrl, ""}

\* variant: the output list is probed before the images list
ExtractImageURL_OutputFirst(data) ==
    IF data.isNull THEN [threw |-> TRUE, url |-> NullUrl]
    ELSE IF data.output.present /\ Len(data.output.list) > 0
    THEN [threw |-> FALSE, url |-> data.output.list[1]]
    ELSE IF data.images.present /\ Len(data.images.list) > 0
    THEN IF data.images.list[1].isNull
         THEN [threw |-> TRUE, url |-> NullUrl]
         ELSE [threw |-> FALSE, url |-> data.images.list[1].url]
    ELSE [threw |-> FALSE, url |-> NullUrl]

\* the two probes: `images[0].url` when images is a non-empty list,
\* otherwise `output[0]` when output is a non-empty list, otherwise null;
\* reading a property of null throws a TypeError
ExtractImageURL(data) ==
    IF data.isNull THEN [threw |-> TRUE, url |-> NullUrl]
    ELSE IF data.images.present /\ Len(data.images.list) > 0
    THEN IF data.images.list[1].isNull
         THEN [threw |-> TRUE, url |-> NullUrl]
         ELSE [threw |-> FALSE, url |-> data.images.list[1].url]
    ELSE IF data.output.present /\ Len(data.output.list) > 0
    THEN [threw |-> FALSE, url |-> data.output.list[1]]
    ELSE [threw |-> FALSE, url |-> NullUrl]

SuccessBody(url, enhanced) ==
    [status |-> 200, code |-> "",
     fields |-> {"success", "image_url", "prompt_used", "user_id",
                 "generation_time", "message"},
     image_url |-> url, prompt_used |-> enhanced]

\* ---------------------------------------------------------- error mapping
\* the value caught by the catch block: an axios error carrying the
\* upstream response, or an error without one (timeout, network, TypeError)
HttpError(status) == [hasResponse |-> TRUE, status |-> status]
PlainError == [hasResponse |-> FALSE, status |-> 0]

\* variant: the upstream status is passed through to the client
ErrorMapping_PassStatus(error) ==
    LET tuple ==
          IF error.hasResponse
          THEN IF error.status = 401 THEN <<401, "AUTH_ERROR">>
               ELSE IF error.status = 429 THEN <<429, "RATE_LIMIT">>
               ELSE IF error.status = 400 THEN <<400, "INVALID_REQUEST">>
               ELSE <<error.status, "SERVICE_ERROR">>
          ELSE <<500, "SERVICE_ERROR">>
    IN [status |-> tuple[1], code |-> tuple[2],
        fields |-> {"error", "code", "timestamp"},
        image_url |-> NoUrl, prompt_used |-> <<>>]

ErrorMapping(error) ==
    LET tuple ==
          IF error.hasResponse
          THEN IF error.status = 401 THEN <<503, "AUTH_ERROR">>
               ELSE IF error.status = 429 THEN <<429, "RATE_LIMIT">>
               ELSE IF error.status = 400 THEN <<400, "INVALID_REQUEST">>
               ELSE <<500, "SERVICE_ERROR">>
          ELSE <<500, "SERVICE_ERROR">>
    IN [status |-> tuple[1], code |-> tuple[2],
        fields |-> {"error", "code", "timestamp"},
        image_url |-> NoUrl, prompt_used |-> <<>>]

\* variant: the try block encloses the awaited call only
TryCovers_AwaitOnly(site) == site = "await"

\* the try block encloses the whole handler body, so a throw at any of the
\* three sites (validation, the awaited call, extraction) reaches the catch
TryCovers(site) == TRUE

\* ----------------------------------------------------------- rate limiter
\* variant: the limiter lets one more request through
LimitExceeded_OffByOne(count) == count > RateMax + 1

\* the limiter answers itself once the address's count in the current
\* window exceeds max
LimitExceeded(count) == count > RateMax

LimiterBody ==
    [status |-> 429, code |-> "RATE_LIMIT_EXCEEDED",
     fields |-> {"error", "code"}, image_url |-> NoUrl, prompt_used |-> <<>>]

\* ------------------------------------------------------------- the state
NoUpstream == [kind |-> "none", data |-> NullPayload, error |-> PlainError]

\* a connection slot with no request on it
Idle ==
    [pc |-> "idle", over |-> FALSE, prompt |-> JsUndefined,
     entered |-> FALSE, trace |-> <<>>, calls |-> <<>>,
     up |-> NoUpstream, nresp |-> 0, resp |-> NoResponse]

Slots == 1..NumSlots
IPs == {"ip1", "ip2"}

\* the last health probe answered to an address (status 0: none yet)
NoHealth == [status |-> 0, atLimit |-> FALSE]

Init ==
    /\ req = [s \in Slots |-> Idle]
    /\ hits = [a \in IPs |-> 0]
    /\ passed = [a \in IPs |-> 0]
    /\ health = [a \in IPs |-> NoHealth]
    /\ faults = 0

\* res.status(..).json(..): the request is answered
Respond(r, body, stage) ==
    [r EXCEPT !.pc = "done", !.nresp = r.nresp + 1, !.resp = body,
              !.trace = Append(r.trace, stage)]

\* an exception that no catch block handles: the async handler's promise
\* rejects and the request is left without an answer
Escape(r) == [r EXCEPT !.pc = "faulted"]

\* axios.post: one outbound call carrying the augmented prompt
IssueCall(calls, enhanced) == Append(calls, enhanced)

\* the handler up to its only suspension point
HandlerStart(r) ==
    LET v == Validate(r.prompt)
        r1 == [r EXCEPT !.entered = TRUE, !.trace = <<"Received">>]
    IN CASE v = "INVALID_PROMPT" ->
              Respond(r1, ErrorBody(400, "INVALID_PROMPT"), "Failure")
         [] v = "PROMPT_TOO_LONG" ->
              Respond(r1, ErrorBody(400, "PROMPT_TOO_LONG"), "Failure")
         [] v = "TypeError" ->
              IF TryCovers("validation")
              THEN Respond(r1, ErrorMapping(PlainError), "Failure")
              ELSE Escape(r1)
         [] OTHER ->
              [r1 EXCEPT !.pc = "awaiting",
                         !.trace = <<"Received", "Validated", "UpstreamCalled">>,
                         !.calls = IssueCall(r.calls, EnhancedPrompt(r.prompt.s))]

\* the handler after the awaited call resolved with a 2xx answer
HandlerResume(r, data) ==
    LET x == ExtractImageURL(data)
        r1 == [r EXCEPT !.up = [kind |-> "resolved", data |-> data,
                                error |-> PlainError]]
    IN IF x.threw
       THEN IF TryCovers("extraction")
            THEN Respond(r1, ErrorMapping(PlainError), "Failure")
            ELSE Escape(r1)
       ELSE IF FalsyUrl(x.url)
       THEN Respond(r1, ErrorBody(500, "NO_IMAGE_GENERATED"), "Failure")
       ELSE Respond(r1, SuccessBody(x.url, r.calls[Len(r.calls)]), "Success")

\* variant: a call that failed without a response is issued once more
HandlerCatch_Retry(r, error) ==
    IF ~error.hasResponse /\ Len(r.calls) < 2
    THEN [r EXCEPT !.calls = Append(r.calls, r.calls[1])]
    ELSE Respond([r EXCEPT !.up = [kind |-> "rejected", data |-> NullPayload,
                                   error |-> error]],
                 ErrorMapping(error), "Failure")

\* the handler after the awaited call rejected
HandlerCatch(r, error) ==
    LET r1 == [r EXCEPT !.up = [kind |-> "rejected", data |-> NullPayload,
                                error |-> error]]
    IN IF TryCovers("await")
       THEN Respond(r1, ErrorMapping(error), "Failure")
       ELSE Escape(r1)

\* --------------------------------------------------------------- actions
\* POST /api/v1/generate-wallpaper from address ip: the limiter counts the
\* request and either answers 429 or passes it on to the handler, which runs
\* to its response or to the awaited upstream call
PostGenerate(s, ip, prompt) ==
    /\ req[s].pc = "idle"
    /\ hits[ip] < RateMax + MaxOver
    /\ LET n == hits[ip] + 1
           r == [Idle EXCEPT !.over = (hits[ip] >= RateMax), !.prompt = prompt]
       IN /\ hits' = [hits EXCEPT ![ip] = n]
          /\ IF LimitExceeded(n)
             THEN /\ req' = [req EXCEPT ![s] =
                        [r EXCEPT !.pc = "done", !.nresp = 1, !.resp = LimiterBody]]
                  /\ passed' = passed
             ELSE /\ req' = [req EXCEPT ![s] = HandlerStart(r)]
                  /\ passed' = [passed EXCEPT ![ip] = passed[ip] + 1]
    /\ faults' = faults + (IF req'[s].pc = "faulted" THEN 1 ELSE 0)
    /\ UNCHANGED health

\* the upstream provider answers 2xx with payload data
UpstreamResolve(s, data) ==
    /\ req[s].pc = "awaiting"
    /\ req' = [req EXCEPT ![s] = HandlerResume(req[s], data)]
    /\ faults' = faults + (IF req'[s].pc = "faulted" THEN 1 ELSE 0)
    /\ UNCHANGED <<hits, passed, health>>

\* the upstream call fails: a non-2xx answer, a network error or the
\* 60-second timeout
UpstreamReject(s, error) ==
    /\ req[s].pc = "awaiting"
    /\ req' = [req EXCEPT ![s] = HandlerCatch(req[s], error)]
    /\ faults' = faults + (IF req'[s].pc = "faulted" THEN 1 ELSE 0)
    /\ UNCHANGED <<hits, passed, health>>

\* the answered request's connection ends; the slot takes a later request
Close(s) ==
    /\ req[s].pc = "done"
    /\ req' = [req EXCEPT ![s] = Idle]
    /\ UNCHANGED <<hits, passed, health, faults>>

\* GET /: the health probe, registered outside the /api/ prefix
GetHealth(ip) ==
    /\ health' = [health EXCEPT ![ip] =
                    [status |-> 200, atLimit |-> (hits[ip] >= RateMax)]]
    /\ UNCHANGED <<req, hits, passed, faults>>

\* the address's 15-minute window expires and its count starts again
WindowReset(ip) ==
    /\ hits[ip] > 0
    /\ hits' = [hits EXCEPT ![ip] = 0]
    /\ passed' = [passed EXCEPT ![ip] = 0]
    /\ UNCHANGED <<req, health, faults>>

\* ---------------------------------------------------------------- inputs
Pads == UNION {{Rep(" ", n), Rep("\t", n)} : n \in 0..MaxPad}
CoreLens == {0, MinPromptLen - 1, MinPromptLen,
             MaxPromptLen - 1, MaxPromptLen, MaxPromptLen + 1}

StringPrompts ==
    {a \o Rep("x", n) \o b : a \in Pads, b \in Pads, n \in CoreLens}
        \cup {Rep(" ", MaxPromptLen + 1)}

HandlerPrompts ==
    {JsString(p) : p \in StringPrompts}
        \cup {JsUndefined, JsNull, JsNumber(0), JsNumber(123),
              JsBoolean(FALSE), JsBoolean(TRUE), JsArray(<<>>)}

ImageLists ==
    {<<>>, <<ImageEntry("X")>>, <<ImageEntry("X"), ImageEntry("Z")>>,
     <<ImageEntry(NoUrl)>>, <<ImageEntry("")>>, <<NullEntry>>}
OutputLists == {<<>>, <<"Y">>, <<"Y", "Z">>, <<"">>, <<NullUrl>>}

HandlerPayloads ==
    {Payload(i, o) : i \in {Missing} \cup {Field(l) : l \in ImageLists},
                     o \in {Missing} \cup {Field(l) : l \in OutputLists}}
        \cup {NullPayload}

HandlerErrors == {HttpError(c) : c \in {400, 401, 403, 429, 500, 503}} \cup {PlainError}

ServerPrompts == {JsString(Rep("x", MinPromptLen)), JsUndefined, JsNumber(123)}
ServerPayloads ==
    {Payload(Field(<<ImageEntry("X")>>), Missing), Payload(Missing, Missing)}
ServerErrors == {HttpError(429), PlainError}

\* -------------------------------------------------------- specifications
\* one request at a time from one address, over the full input sets
NextHandler ==
    \/ \E p \in HandlerPrompts : PostGenerate(1, "ip1", p)
    \/ \E d \in HandlerPayloads : UpstreamResolve(1, d)
    \/ \E e \in HandlerErrors : UpstreamReject(1, e)
    \/ Close(1)
    \/ GetHealth("ip1")
    \/ WindowReset("ip1")

SpecHandler == Init /\ [][NextHandler]_vars

\* one request at a time, from several addresses
NextLimiter ==
    \/ \E a \in IPs, p \in ServerPrompts : PostGenerate(1, a, p)
    \/ \E d \in ServerPayloads : UpstreamResolve(1, d)
    \/ \E e \in ServerErrors : UpstreamReject(1, e)
    \/ Close(1)
    \/ \E a \in IPs : GetHealth(a)
    \/ \E a \in IPs : WindowReset(a)

SpecLimiter == Init /\ [][NextLimiter]_vars

\* concurrent requests from one address
NextServer ==
    \/ \E s \in Slots, p \in ServerPrompts : PostGenerate(s, "ip1", p)
    \/ \E s \in Slots, d \in ServerPayloads : UpstreamResolve(s, d)
    \/ \E s \in Slots, e \in ServerErrors : UpstreamReject(s, e)
    \/ \E s \in Slots : Close(s)
    \/ GetHealth("ip1")
    \/ WindowReset("ip1")

\* every awaited call settles: it resolves, rejects or hits its timeout
Settle(s) ==
    \/ \E d \in ServerPayloads : UpstreamResolve(s, d)
    \/ \E e \in ServerErrors : UpstreamReject(s, e)

SpecServer ==
    Init /\ [][NextServer]_vars /\ \A s \in Slots : WF_vars(Settle(s))

\* ------------------------------------------------------ claim vocabulary
IsString(p) == p.t = "string"
RawLength(p) == Len(p.s)
TrimmedLength(p) == Len(Trim(p.s))
Absent(p) == p.t \in {"undefined", "null"}

\* the request on slot s was handed to the handler and has its answer
Handled(s) == req[s].entered /\ req[s].pc = "done"

HasCode(s, status, code) ==
    req[s].resp.status = status /\ req[s].resp.code = code

HasImages(d) == ~d.isNull /\ d.images.present /\ Len(d.images.list) > 0
HasOutput(d) == ~d.isNull /\ d.output.present /\ Len(d.output.list) > 0

UpstreamFailureCodes == {"AUTH_ERROR", "RATE_LIMIT", "INVALID_REQUEST", "SERVICE_ERROR"}

\* ---------------------------------------------------------------- claims
\* C1: a request that reaches the handler with a prompt that is absent,
\* empty or of trimmed length below 3 is answered 400 INVALID_PROMPT and
\* causes no outbound call.
C1_ShortPromptRejected ==
    \A s \in Slots :
        (/\ req[s].entered
         /\ \/ Absent(req[s].prompt)
            \/ IsString(req[s].prompt) /\ TrimmedLength(req[s].prompt) < 3)
            => /\ Handled(s)
               /\ HasCode(s, 400, "INVALID_PROMPT")
               /\ req[s].calls = <<>>

\* a padded prompt of raw length >= 3 and trimmed length < 3 was rejected
C1_Witness ==
    \E s \in Slots :
        /\ Handled(s) /\ IsString(req[s].prompt)
        /\ RawLength(req[s].prompt) >= 3 /\ TrimmedLength(req[s].prompt) < 3
        /\ TrimmedLength(req[s].prompt) > 0
        /\ HasCode(s, 400, "INVALID_PROMPT")

\* C2 as stated: every prompt of raw length above 500, whatever its
\* content, is answered 400 PROMPT_TOO_LONG.
C2_Original ==
    \A s \in Slots :
        (req[s].entered /\ IsString(req[s].prompt) /\ RawLength(req[s].prompt) > 500)
            => Handled(s) /\ HasCode(s, 400, "PROMPT_TOO_LONG")

\* C2 amended: a prompt of raw length above 500 whose trimmed length is at
\* least 3 is answered 400 PROMPT_TOO_LONG (one of trimmed length below 3
\* is answered INVALID_PROMPT by the earlier rule).
C2_LongPromptRejected ==
    \A s \in Slots :
        (/\ req[s].entered /\ IsString(req[s].prompt)
         /\ RawLength(req[s].prompt) > 500
         /\ TrimmedLength(req[s].prompt) >= 3)
            => /\ Handled(s)
               /\ HasCode(s, 400, "PROMPT_TOO_LONG")
               /\ req[s].calls = <<>>

\* a prompt too long only because of its padding was rejected
C2_Witness ==
    \E s \in Slots :
        /\ Handled(s) /\ IsString(req[s].prompt)
        /\ RawLength(req[s].prompt) > 500 /\ TrimmedLength(req[s].prompt) <= 500
        /\ HasCode(s, 400, "PROMPT_TOO_LONG")

\* C3 as stated: every prompt of trimmed length in [3,500] causes an
\* outbound call carrying prompt + suffix, and on success prompt_used is
\* that string.
C3_Original ==
    \A s \in Slots :
        (/\ req[s].entered /\ IsString(req[s].prompt)
         /\ TrimmedLength(req[s].prompt) >= 3
         /\ TrimmedLength(req[s].prompt) <= 500)
            => /\ req[s].calls = <<req[s].prompt.s \o Suffix>>
               /\ req[s].resp.status = 200
                    => req[s].resp.prompt_used = req[s].prompt.s \o Suffix

\* C3 amended: every prompt of trimmed length at least 3 and raw length at
\* most 500 causes an outbound call carrying the untrimmed prompt followed
\* by the suffix, and on success prompt_used is that same string.
C3_AugmentedPromptSent ==
    \A s \in Slots :
        (/\ req[s].entered /\ IsString(req[s].prompt)
         /\ TrimmedLength(req[s].prompt) >= 3
         /\ RawLength(req[s].prompt) <= 500)
            => /\ req[s].calls = <<req[s].prompt.s \o Suffix>>
               /\ req[s].resp.status = 200
                    => req[s].resp.prompt_used = req[s].prompt.s \o Suffix

\* a padded prompt of raw length 500 went upstream untrimmed and succeeded
C3_Witness ==
    \E s \in Slots :
        /\ Handled(s) /\ IsString(req[s].prompt)
        /\ RawLength(req[s].prompt) = 500
        /\ TrimmedLength(req[s].prompt) < RawLength(req[s].prompt)
        /\ req[s].resp.status = 200
        /\ req[s].resp.prompt_used = req[s].prompt.s \o Suffix
        /\ Len(req[s].resp.prompt_used) = 616

\* C4: a failed upstream call is answered by the table: 401 -> AUTH_ERROR
\* 503, 429 -> RATE_LIMIT 429, 400 -> INVALID_REQUEST 400, any other status
\* or no response object -> SERVICE_ERROR 500.
C4_ErrorTable ==
    \A s \in Slots :
        req[s].up.kind = "rejected" =>
            LET e == req[s].up.error
            IN /\ Handled(s)
               /\ (e.hasResponse /\ e.status = 401) => HasCode(s, 503, "AUTH_ERROR")
               /\ (e.hasResponse /\ e.status = 429) => HasCode(s, 429, "RATE_LIMIT")
               /\ (e.hasResponse /\ e.status = 400) => HasCode(s, 400, "INVALID_REQUEST")
               /\ (~e.hasResponse \/ e.status \notin {401, 429, 400})
                    => HasCode(s, 500, "SERVICE_ERROR")

\* an upstream 401 was answered 503 AUTH_ERROR
C4_Witness ==
    \E s \in Slots :
        /\ req[s].up.kind = "rejected" /\ req[s].up.error = HttpError(401)
        /\ HasCode(s, 503, "AUTH_ERROR")

\* C5 as stated: images[0].url is the result when images has an entry,
\* output[0] when only output has one, and the answer is 500
\* NO_IMAGE_GENERATED exactly when neither list has an entry.
C5_Original ==
    \A s \in Slots :
        req[s].up.kind = "resolved" =>
            LET d == req[s].up.data
            IN /\ HasImages(d) =>
                    /\ req[s].resp.status = 200
                    /\ req[s].resp.image_url = d.images.list[1].url
               /\ (~HasImages(d) /\ HasOutput(d)) =>
                    /\ req[s].resp.status = 200
                    /\ req[s].resp.image_url = d.output.list[1]
               /\ HasCode(s, 500, "NO_IMAGE_GENERATED")
                    <=> (~HasImages(d) /\ ~HasOutput(d))

\* C5 amended: when images has an entry only that entry is used: success
\* with its url if the url is non-empty, NO_IMAGE_GENERATED if the url is
\* missing or empty; when images is absent or empty and output has an entry:
\* success with output[0] if it is non-empty, NO_IMAGE_GENERATED otherwise;
\* NO_IMAGE_GENERATED also when neither list has an entry, and in no other
\* case (a null payload or a null first images entry is answered 500
\* SERVICE_ERROR).
C5_Extraction ==
    \A s \in Slots :
        req[s].up.kind = "resolved" =>
            LET d == req[s].up.data
                nullCase == d.isNull \/ (HasImages(d) /\ d.images.list[1].isNull)
                url == IF HasImages(d) THEN d.images.list[1].url
                       ELSE IF HasOutput(d) THEN d.output.list[1]
                       ELSE NullUrl
            IN /\ Handled(s)
               /\ (~nullCase /\ ~FalsyUrl(url)) =>
                    /\ HasCode(s, 200, "")
                    /\ req[s].resp.image_url = url
               /\ HasCode(s, 500, "NO_IMAGE_GENERATED")
                    <=> (~nullCase /\ FalsyUrl(url))
               /\ nullCase => HasCode(s, 500, "SERVICE_ERROR")

\* output[0] was returned because images was absent or empty
C5_Witness ==
    \E s \in Slots :
        /\ req[s].up.kind = "resolved"
        /\ ~HasImages(req[s].up.data) /\ HasOutput(req[s].up.data)
        /\ HasCode(s, 200, "")
        /\ req[s].resp.image_url = "Y"

\* C6: a request causes at most one outbound call: exactly one when its
\* prompt passes validation, none otherwise; a failed call is not retried
\* and is answered with a failure at once.
C6_OneCall ==
    \A s \in Slots :
        /\ Len(req[s].calls) <= 1
        /\ req[s].entered =>
              (Len(req[s].calls) = 1 <=>
                  /\ IsString(req[s].prompt)
                  /\ TrimmedLength(req[s].prompt) >= 3
                  /\ RawLength(req[s].prompt) <= 500)
        /\ ~req[s].entered => req[s].calls = <<>>
        /\ req[s].up.kind = "rejected" =>
              /\ Handled(s)
              /\ req[s].resp.status >= 400
              /\ Len(req[s].calls) = 1

\* a timed-out call was answered with a failure after exactly one call
C6_Witness ==
    \E s \in Slots :
        /\ req[s].up.kind = "rejected" /\ ~req[s].up.error.hasResponse
        /\ Handled(s) /\ Len(req[s].calls) = 1
        /\ HasCode(s, 500, "SERVICE_ERROR")

\* C7: the codes AUTH_ERROR, RATE_LIMIT, INVALID_REQUEST and SERVICE_ERROR
\* answer only requests whose outbound call was issued and failed; a
\* request without an outbound call is answered only with INVALID_PROMPT or
\* PROMPT_TOO_LONG, whatever the type of its prompt.
C7_FailureCodesNeedFailedCall ==
    \A s \in Slots :
        Handled(s) =>
            /\ req[s].resp.code \in UpstreamFailureCodes =>
                  Len(req[s].calls) = 1 /\ req[s].up.kind = "rejected"
            /\ req[s].calls = <<>> =>
                  req[s].resp.code \in {"INVALID_PROMPT", "PROMPT_TOO_LONG"}

\* C9: every 4xx/5xx answer of the handler carries the fields error, code
\* and timestamp.
C9_ErrorBodyFields ==
    \A s \in Slots :
        (Handled(s) /\ req[s].resp.status >= 400)
            => {"error", "code", "timestamp"} \subseteq req[s].resp.fields

\* C8: per source address at most 10 requests of one window reach the
\* handler; every further one is answered 429 RATE_LIMIT_EXCEEDED by the
\* limiter, before validation and without an outbound call; GET / is
\* answered 200 whatever the address's count.
C8_RateLimit ==
    /\ \A a \in IPs : passed[a] <= 10
    /\ \A s \in Slots :
          (req[s].pc # "idle" /\ req[s].over) =>
              /\ req[s].pc = "done"
              /\ HasCode(s, 429, "RATE_LIMIT_EXCEEDED")
              /\ ~req[s].entered
              /\ req[s].trace = <<>>
              /\ req[s].calls = <<>>
    /\ \A a \in IPs : health[a].status \in {0, 200}

\* one address is over its limit and was still served the health probe,
\* while the other address's request reached the handler
C8_Witness ==
    /\ passed["ip1"] = 10
    /\ health["ip1"].atLimit /\ health["ip1"].status = 200
    /\ passed["ip2"] > 0
    /\ \E s \in Slots :
          req[s].over /\ HasCode(s, 429, "RATE_LIMIT_EXCEEDED") /\ ~req[s].entered

\* rank of a stage in Received -> Validated -> UpstreamCalled -> {Success | Failure}
StageRank(stage) ==
    CASE stage = "Received" -> 1
      [] stage = "Validated" -> 2
      [] stage = "UpstreamCalled" -> 3
      [] OTHER -> 4

\* a request's stages so far are in order, none twice
InOrder(trace) ==
    \A i, j \in 1..Len(trace) : i < j => StageRank(trace[i]) < StageRank(trace[j])

\* C10: every request that reaches the handler moves forward through
\* Received -> Validated -> UpstreamCalled -> {Success | Failure} without a
\* loop, is answered exactly once, no failure escapes the handler, and
\* given that every outbound call settles no request stays pending, under
\* any interleaving of concurrent requests.
C10_AnsweredOnce ==
    /\ [](\A s \in Slots :
            /\ InOrder(req[s].trace)
            /\ req[s].nresp <= 1
            /\ req[s].pc = "done" <=> req[s].nresp = 1
            /\ req[s].pc # "faulted")
    /\ [](faults = 0)
    /\ [][\A s \in Slots :
            /\ req[s].pc = "awaiting" => req'[s].pc \in {"awaiting", "done"}
            /\ req[s].pc = "done" => req'[s].pc \in {"done", "idle"}]_vars
    /\ \A s \in Slots : (req[s].pc = "awaiting") ~> (req[s].pc = "done")

\* a request is answered 200 while an earlier concurrent one failed and a
\* third-party failure answer is on record
C10_Witness ==
    \E s1, s2 \in Slots :
        /\ s1 # s2
        /\ req[s1].up.kind = "rejected" /\ req[s1].resp.status = 500
        /\ req[s2].up.kind = "resolved" /\ req[s2].resp.status = 200

====
